---- MODULE Spec2Model ----
(***************************************************************************)
(* Firmware upload into Cypress EZ-USB microcontrollers                    *)
(* (libusb examples: ezusb.c, ezusb.h, fxload.c).                          *)
(*                                                                         *)
(* One behaviour is one call of ezusb_load_ram(device, path, fx_type,      *)
(* img_type, stage).  The image file and the status of every USB control   *)
(* transfer are the inputs; every control transfer issued is recorded in   *)
(* `log`, every call of the poke callback in `pokes`.                      *)
(***************************************************************************)
EXTENDS Integers, Sequences, FiniteSets, TLC

(***************************************************************************)
(* Bounds of the input space.                                              *)
(***************************************************************************)
\* most lines in an Intel HEX image
MaxLines == 2
\* most blocks in a Cypress IIC image
MaxBlocks == 2
\* a raw binary image has at most MaxBinChunks full 4 KiB chunks, plus one byte
MaxBinChunks == 1
\* most data chunks in an FX3 image
MaxChunks == 1
\* an Intel HEX image made to fill the segment buffer starts with at most
\* MaxFull records of 255 bytes, one after the other ...
MaxFull == 4
\* ... and goes on with at most MaxTail shorter records
MaxTail == 2

(***************************************************************************)
(* Program constants.                                                      *)
(***************************************************************************)
FX_TYPE_AN21 == 0
FX_TYPE_FX1 == 1
FX_TYPE_FX2 == 2
FX_TYPE_FX2LP == 3
FX_TYPE_FX3 == 4

IMG_TYPE_HEX == 0
IMG_TYPE_IIC == 1
IMG_TYPE_BIX == 2
IMG_TYPE_IMG == 3

\* bRequest codes, 0xA0 and 0xA3
RW_INTERNAL == 160
RW_MEMORY == 163

RETRY_LIMIT == 5

\* sizeof(data) in parse_ihex
IHEX_DATA_SIZE == 1023
\* sizeof(data) in parse_bin and parse_iic, and the FX3 sub-write size
BIN_DATA_SIZE == 4096

\* libusb status codes and errno values the code names
LIBUSB_ERROR_IO == -1
LIBUSB_ERROR_PIPE == -9
LIBUSB_ERROR_TIMEOUT == -7
EIO == 5
EINVAL == 22
EDOM == 33

\* 2^16: wValue and wIndex are the low and the high 16 bits of an address
TwoTo16 == 65536

Min(a, b) == IF a < b THEN a ELSE b

(***************************************************************************)
(* uint32_t values that may pass 2^31 (FX3 addresses, data words and the   *)
(* checksum) are kept as their two 16-bit halves; all arithmetic on them   *)
(* is modulo 2^32.  n is a number below 2^15.                              *)
(***************************************************************************)
U32(h, l) == [hi |-> h, lo |-> l]

u32_add(a, n) ==
    U32((a.hi + ((a.lo + n) \div TwoTo16)) % TwoTo16, (a.lo + n) % TwoTo16)

u32_sum(a, b) ==
    U32((a.hi + b.hi + ((a.lo + b.lo) \div TwoTo16)) % TwoTo16, (a.lo + b.lo) % TwoTo16)

u32_times(n, w) ==
    U32((n * w.hi + ((n * w.lo) \div TwoTo16)) % TwoTo16, (n * w.lo) % TwoTo16)

(***************************************************************************)
(* Memory region classifiers: TRUE when [addr, addr+len] includes external *)
(* RAM.                                                                    *)
(***************************************************************************)
\* AN21 / FX: 0x0000-0x1b3f is on-chip
fx_is_external(addr, len) ==
    IF addr <= 6975 THEN (addr + len) > 6976 ELSE TRUE

\* fx2_is_external taking a range that ends with its window for external
fx2_is_external_early(addr, len) ==
    IF addr <= 8191 THEN (addr + len) >= 8192
    ELSE IF addr >= 57344 /\ addr <= 57855 THEN (addr + len) >= 57856
    ELSE TRUE

\* FX2: 0x0000-0x1fff and 0xe000-0xe1ff are on-chip
fx2_is_external(addr, len) ==
    IF addr <= 8191 THEN (addr + len) > 8192
    ELSE IF addr >= 57344 /\ addr <= 57855 THEN (addr + len) > 57856
    ELSE TRUE

\* FX2LP: 0x0000-0x3fff and 0xe000-0xe1ff are on-chip
fx2lp_is_external(addr, len) ==
    IF addr <= 16383 THEN (addr + len) > 16384
    ELSE IF addr >= 57344 /\ addr <= 57855 THEN (addr + len) > 57856
    ELSE TRUE

\* the switch on fx_type in ezusb_load_ram: the classifier of the chip
is_external(fx, addr, len) ==
    IF fx = FX_TYPE_FX2LP THEN fx2lp_is_external(addr, len)
    ELSE IF fx = FX_TYPE_FX2 THEN fx2_is_external(addr, len)
    ELSE fx_is_external(addr, len)

\* the same switch: the CPUCS register address of the chip (0xe600, 0x7f92)
cpucs_addr(fx) ==
    IF fx = FX_TYPE_FX2LP \/ fx = FX_TYPE_FX2 THEN 58880 ELSE 32658

(***************************************************************************)
(* Transport wrappers: what the code makes of a control transfer's status. *)
(***************************************************************************)
\* ezusb_write that reports no error
ezusb_write_ok(st, len) == 0

\* ezusb_write that takes a transfer of fewer than len bytes for an error
ezusb_write_strict(st, len) == IF st # len THEN -EIO ELSE 0

\* ezusb_write of len bytes: a status other than len is logged; every negative
\* status becomes -EIO, anything else 0
ezusb_write(st, len) == IF st < 0 THEN -EIO ELSE 0

\* ezusb_read: the same mapping
ezusb_read(st) == IF st < 0 THEN -EIO ELSE 0

\* ezusb_cpucs letting an I/O error through when halting too
ezusb_cpucs_any_io(st, doRun) ==
    IF (st # 1) /\ (st # LIBUSB_ERROR_IO) THEN FALSE ELSE TRUE

\* ezusb_cpucs: FALSE on error; an I/O error is let through when running
ezusb_cpucs(st, doRun) ==
    IF (st # 1) /\ ((~doRun) \/ (st # LIBUSB_ERROR_IO)) THEN FALSE ELSE TRUE

\* ezusb_fx3_jump: FALSE on error; an I/O error is let through
ezusb_fx3_jump(st) ==
    IF (st # 0) /\ (st # LIBUSB_ERROR_IO) THEN FALSE ELSE TRUE

\* the statuses libusb_control_transfer can return for a transfer of len bytes:
\* all of it, less than all of it, or an error
Statuses(len) ==
    {len} \cup (IF len > 0 THEN {len - 1} ELSE {})
          \cup {LIBUSB_ERROR_IO, LIBUSB_ERROR_PIPE, LIBUSB_ERROR_TIMEOUT}

(***************************************************************************)
(* The poke sink.                                                          *)
(***************************************************************************)
\* ram_poke_gate with the test of skip_external inverted
ram_poke_gate_swapped(mode, external) ==
    CASE mode = "internal_only" -> IF external THEN "EINVAL" ELSE "write"
      [] mode = "skip_internal" -> IF ~external THEN "skip" ELSE "write"
      [] mode = "skip_external" -> IF ~external THEN "skip" ELSE "write"
      [] OTHER -> "EDOM"

\* the switch on ctx->mode in ram_poke: fail, skip, or go on to write
ram_poke_gate(mode, external) ==
    CASE mode = "internal_only" -> IF external THEN "EINVAL" ELSE "write"
      [] mode = "skip_internal" -> IF ~external THEN "skip" ELSE "write"
      [] mode = "skip_external" -> IF external THEN "skip" ELSE "write"
      [] OTHER -> "EDOM"

\* ram_poke_count that counts the segment and forgets its bytes
ram_poke_count_no_bytes(c, len) == [c EXCEPT !.count = c.count + 1]

\* ctx->total += len; ctx->count++
ram_poke_count(c, len) ==
    [c EXCEPT !.total = c.total + len, !.count = c.count + 1]

\* ram_poke_again without the break on an error that is no timeout
ram_poke_again_any(r, retry) == r < 0 /\ retry < RETRY_LIMIT

\* the write loop of ram_poke goes round again: the write failed, retries are
\* left, and the failure is a timeout
ram_poke_again(r, retry) ==
    r < 0 /\ retry < RETRY_LIMIT /\ ~(r # LIBUSB_ERROR_TIMEOUT)

\* ram_poke_opcode that always names the on-chip write
ram_poke_opcode_internal(external) == RW_INTERNAL

\* opcode of a vendor write
ram_poke_opcode(external) == IF external THEN RW_MEMORY ELSE RW_INTERNAL

(***************************************************************************)
(* The image files the model reads.                                        *)
(*                                                                         *)
(* An Intel HEX file is a sequence of lines.  A line is known by its first *)
(* character c0 (":" a record, "#" a comment, "x" anything else), the      *)
(* three header fields of a record (len, off, type: the values of the hex  *)
(* digits at columns 1-2, 3-6 and 7-8) and npairs, the number of           *)
(* two-character pairs that follow column 8 (data bytes and checksum), so  *)
(* that strlen(line) = 9 + 2 * npairs.  Byte i of line n is named <<n, i>>.*)
(***************************************************************************)
HexLine(c, l, o, t, n) == [c0 |-> c, len |-> l, off |-> o, type |-> t, npairs |-> n]

ihex_strlen(line) == 9 + 2 * line.npairs

HexLines ==
    { HexLine("#", 0, 0, 0, 0),          \* a comment
      HexLine("x", 0, 0, 0, 0),          \* not a record
      HexLine(":", 0, 0, 1, 1),          \* :00000001FF, end of file
      HexLine(":", 2, 0, 2, 3),          \* record type 02
      HexLine(":", 2, 4096, 0, 2),       \* declares 2 bytes, holds 1
      HexLine(":", 2, 4096, 0, 3),       \* 2 bytes at 0x1000
      HexLine(":", 1, 4098, 0, 2),       \* 1 byte at 0x1002
      HexLine(":", 1, 4098, 0, 3),       \* declares 1 byte, holds 2
      HexLine(":", 2, 8191, 0, 3),       \* 2 bytes at 0x1fff
      HexLine(":", 1, 57856, 0, 2),      \* 1 byte at 0xe200
      HexLine(":", 0, 0, 0, 1) }         \* no bytes at 0x0000

SeqUpTo(S, n) == UNION { [1..k -> S] : k \in 0..n }

(***************************************************************************)
(* A Cypress IIC file: an 8-byte header of which n bytes are present and   *)
(* b0 is the first; then blocks, each a 4-byte header (len, addr) and      *)
(* `have` payload bytes (have < len: the file ends inside the payload);    *)
(* then `trail` more bytes.                                                *)
(***************************************************************************)
IicBlock(l, a, h) == [len |-> l, addr |-> a, have |-> h]

IicHeaders ==
    { [n |-> 8, b0 |-> 194], [n |-> 8, b0 |-> 178], [n |-> 8, b0 |-> 182],
      [n |-> 4, b0 |-> 194] }

IicWholeBlocks ==
    { IicBlock(2, 4096, 2), IicBlock(1, 57856, 1), IicBlock(2, 0, 2),
      IicBlock(BIN_DATA_SIZE + 1, 0, 0) }

\* the second one leaves more than the 5 bytes taken for the trailing record
IicCutBlocks == { IicBlock(2, 0, 1), IicBlock(8, 0, 2) }

IicBodies ==
    { [blocks |-> b, trail |-> t] : b \in SeqUpTo(IicWholeBlocks, MaxBlocks), t \in {0, 5} }
    \cup { [blocks |-> Append(b, c), trail |-> 0] :
             b \in SeqUpTo(IicWholeBlocks, MaxBlocks - 1), c \in IicCutBlocks }

\* a raw binary file is known by its size
BinSizes ==
    {0, 1} \cup { k * BIN_DATA_SIZE + d : k \in 1..MaxBinChunks, d \in {0, 1} }

(***************************************************************************)
(* An FX3 image: up to 4 header bytes, data chunks (dLength words at       *)
(* dAddress, of which `have` are present, every word equal to `fill`), a   *)
(* terminating chunk of length 0 carrying the entry address, and the       *)
(* checksum word.                                                          *)
(***************************************************************************)
Fx3Chunk(l, a, h, f) == [dLength |-> l, dAddress |-> a, have |-> h, fill |-> f]

Fx3Headers ==
    { <<67, 89, 0, 176>>, <<67, 89, 0, 177>>, <<67, 89, 0, 178>>, <<67, 89, 0, 0>>,
      <<67, 88, 0, 176>>, <<88, 89, 0, 176>>, <<67, 89>> }

Fx3WholeChunks ==
    { Fx3Chunk(1, U32(0, 256), 1, U32(0, 1)),
      \* 1025 words 0xFFFFFFFF at 0xFFFFF000
      Fx3Chunk(1025, U32(65535, 61440), 1025, U32(65535, 65535)) }

Fx3CutChunks == { Fx3Chunk(2, U32(0, 256), 1, U32(0, 1)) }

\* the sum of the data words of the chunks, as uint32_t
RECURSIVE Fx3Sum(_)
Fx3Sum(cs) ==
    IF cs = <<>> THEN U32(0, 0)
    ELSE u32_sum(Fx3Sum(Tail(cs)), u32_times(Head(cs).dLength, Head(cs).fill))

NoWord == [present |-> FALSE, value |-> U32(0, 0)]
Word(v) == [present |-> TRUE, value |-> v]

Fx3Bodies ==
    { [chunks |-> c, term |-> t, csum |-> s] :
        c \in SeqUpTo(Fx3WholeChunks, MaxChunks), t \in {NoWord, Word(U32(0, 512))},
        s \in {NoWord} }
    \cup UNION { { [chunks |-> c, term |-> Word(U32(0, 512)), csum |-> Word(s)] :
                     s \in {Fx3Sum(c), u32_add(Fx3Sum(c), 1)} } :
                 c \in SeqUpTo(Fx3WholeChunks, MaxChunks) }
    \cup { [chunks |-> Append(c, x), term |-> NoWord, csum |-> NoWord] :
             c \in SeqUpTo(Fx3WholeChunks, MaxChunks - 1), x \in Fx3CutChunks }

\* chunks of 2^30 and of 2^30 + 1 words, all 0, next to one of 1 word
Fx3WideChunks ==
    { Fx3Chunk(1, U32(0, 256), 1, U32(0, 1)),
      Fx3Chunk(1073741824, U32(0, 256), 1073741824, U32(0, 0)),
      Fx3Chunk(1073741825, U32(0, 256), 1073741825, U32(0, 0)) }

\* an image file; the fields of the other formats are left empty
NoImage ==
    [exists |-> FALSE, lines |-> <<>>, header |-> [n |-> 0, b0 |-> 0],
     blocks |-> <<>>, trail |-> 0, size |-> 0,
     fhdr |-> <<>>, chunks |-> <<>>, term |-> NoWord, csum |-> NoWord]

HexImages == { [NoImage EXCEPT !.exists = TRUE, !.lines = l] : l \in SeqUpTo(HexLines, MaxLines) }

(***************************************************************************)
(* Intel HEX files that fill the segment buffer: records given by their    *)
(* length and by the gap they leave after the record before them, from     *)
(* 0x1000 on, closed by an end-of-file record.                             *)
(***************************************************************************)
IhexItem(l, g) == [len |-> l, gap |-> g]

RECURSIVE ihex_chain(_, _)
ihex_chain(items, at) ==
    IF items = <<>> THEN <<HexLine(":", 0, 0, 1, 1)>>
    ELSE <<HexLine(":", Head(items).len, at + Head(items).gap, 0, Head(items).len + 1)>>
         \o ihex_chain(Tail(items), at + Head(items).gap + Head(items).len)

IhexTailItems ==
    { IhexItem(3, 0), IhexItem(4, 0), IhexItem(0, 0), IhexItem(0, 16), IhexItem(2, 16) }

\* where the first record lies: at 0x1000, or 258 bytes before the end 0x4000
\* of the on-chip RAM of an FX2LP
IhexBases == {4096, 16126}

MergeImages ==
    { [NoImage EXCEPT !.exists = TRUE,
                      !.lines = ihex_chain([i \in 1..k |-> IhexItem(255, 0)] \o t, b)] :
        k \in 0..MaxFull, t \in SeqUpTo(IhexTailItems, MaxTail), b \in IhexBases }

\* the same files of short records without their end-of-file record, and with
\* a data record and a line that is no record after it
ihex_unclosed(lines) == SubSeq(lines, 1, Len(lines) - 1)

ihex_overlong(lines) == lines \o <<HexLine(":", 2, 4096, 0, 3), HexLine("x", 0, 0, 0, 0)>>

EndImages ==
    UNION { { [NoImage EXCEPT !.exists = TRUE, !.lines = ihex_unclosed(ihex_chain(t, b))],
              [NoImage EXCEPT !.exists = TRUE, !.lines = ihex_overlong(ihex_chain(t, b))] } :
            t \in SeqUpTo(IhexTailItems, MaxTail), b \in IhexBases }

\* a file that ends inside the 8-byte header holds nothing else
IicImages ==
    { [NoImage EXCEPT !.exists = TRUE, !.header = h, !.blocks = b.blocks, !.trail = b.trail] :
        h \in {x \in IicHeaders : x.n = 8}, b \in IicBodies }
    \cup { [NoImage EXCEPT !.exists = TRUE, !.header = h] : h \in {x \in IicHeaders : x.n < 8} }

BinImages == { [NoImage EXCEPT !.exists = TRUE, !.size = s] : s \in BinSizes }

Fx3Images ==
    { [NoImage EXCEPT !.exists = TRUE, !.fhdr = h, !.chunks = b.chunks, !.term = b.term,
                      !.csum = b.csum] : h \in Fx3Headers, b \in Fx3Bodies }

\* complete FX3 images with chunks of 4 GiB and more
Fx3WideImages ==
    { [NoImage EXCEPT !.exists = TRUE, !.fhdr = <<67, 89, 0, 176>>, !.chunks = c,
                      !.term = Word(U32(0, 512)), !.csum = Word(Fx3Sum(c))] :
        c \in SeqUpTo(Fx3WideChunks, MaxChunks) }

\* the files tried for a chip and an image type; fxload takes the type from
\* the file name's extension
Images(fx, it) ==
    {NoImage} \cup
    (IF fx = FX_TYPE_FX3 THEN Fx3Images
     ELSE IF it = IMG_TYPE_HEX THEN HexImages
     ELSE IF it = IMG_TYPE_IIC THEN IicImages
     ELSE BinImages)

(***************************************************************************)
(* How parse_ihex sees a file: as lines.  An IIC file that passed the      *)
(* header test starts with 0xC2, 0xB2 or 0xB6; the raw binary files of the *)
(* model start with a byte that is neither ':' nor '#'.                    *)
(***************************************************************************)
ihex_lines(im, it) ==
    IF it = IMG_TYPE_HEX THEN im.lines
    ELSE IF it = IMG_TYPE_IIC THEN <<HexLine("x", 0, 0, 0, 0)>>
    ELSE IF im.size = 0 THEN <<>>
    ELSE <<HexLine("x", 0, 0, 0, 0)>>

(***************************************************************************)
(* State.                                                                  *)
(***************************************************************************)
VARIABLES
    fx_type, img_type, stage, verbose, image,  \* the arguments, the verbosity, the file
    pc,       \* where the upload is
    phase,    \* 1: first (maybe only) scan of the image, 2: the rescan
    ret,      \* ret of ezusb_load_ram / fx3_load_ram, its value once pc = "done"
    status,   \* what the parser returned
    ctx,      \* struct ram_poke_context: mode, total, count
    ps,       \* the running parser's locals
    pk,       \* the running ram_poke's arguments and locals
    fx3,      \* the locals of fx3_load_ram
    log,      \* every control transfer issued so far, with its status
    pokes,    \* every call of poke so far
    err       \* the first error reported so far, "none" if none

vars == <<fx_type, img_type, stage, verbose, image, pc, phase, ret, status, ctx, ps, pk,
          fx3, log, pokes, err>>

inputs == <<fx_type, img_type, stage, verbose, image>>

NoParser ==
    [fn |-> "none", pos |-> 0, first_line |-> 1, data_addr |-> 0, data_len |-> 0,
     data |-> <<>>, src |-> 0, at |-> "loop"]

NoPoke ==
    [addr |-> 0, external |-> FALSE, len |-> 0, data |-> <<>>, src |-> 0, retry |-> 0,
     rc |-> 0, tries |-> <<>>]

NoFx3 ==
    [dCheckSum |-> U32(0, 0), dLength |-> 0, dAddress |-> U32(0, 0), dLen |-> 0, ci |-> 1,
     off |-> 0]

\* an address below 2^31 as a uint32_t: addr & 0xFFFF and addr >> 16
ToU32(addr) == U32(addr \div TwoTo16, addr % TwoTo16)

\* a control transfer as the device sees it, with the status it ended with;
\* k holds the data written, for a write of ram_poke
Transfer(kind, req, addr, len, val, st, k) ==
    [kind |-> kind, req |-> req, wValue |-> addr.lo, wIndex |-> addr.hi,
     len |-> len, val |-> val, status |-> st, phase |-> phase, retry |-> k.retry,
     data |-> k.data, src |-> k.src]

FxTypes == {FX_TYPE_AN21, FX_TYPE_FX1, FX_TYPE_FX2, FX_TYPE_FX2LP, FX_TYPE_FX3}
ImgTypes == {IMG_TYPE_HEX, IMG_TYPE_IIC, IMG_TYPE_BIX, IMG_TYPE_IMG}

\* fxload's calls: stage 0 or 1; fx3_load_ram reads neither img_type nor stage,
\* and only fx3_load_ram changes what it does with verbose, which starts at 1
\* and which every -v raises and every -q lowers by 1
Init ==
    /\ fx_type \in FxTypes
    /\ img_type \in (IF fx_type = FX_TYPE_FX3 THEN {IMG_TYPE_IMG} ELSE ImgTypes)
    /\ stage \in (IF fx_type = FX_TYPE_FX3 THEN {0} ELSE {0, 1})
    /\ verbose \in (IF fx_type = FX_TYPE_FX3 THEN {-1, 0, 1} ELSE {1})
    /\ image \in Images(fx_type, img_type)
    /\ pc = "start"
    /\ phase = 1
    /\ ret = 0
    /\ status = 0
    /\ ctx = [mode |-> "_undef", total |-> 0, count |-> 0]
    /\ ps = NoParser
    /\ pk = NoPoke
    /\ fx3 = NoFx3
    /\ log = <<>>
    /\ pokes = <<>>
    /\ err = "none"

\* uploads of the Intel HEX files that fill the segment buffer into an FX2LP,
\* whose on-chip RAM holds all of their addresses
InitIhex ==
    /\ fx_type = FX_TYPE_FX2LP
    /\ img_type = IMG_TYPE_HEX
    /\ stage \in {0, 1}
    /\ verbose = 1
    /\ image \in MergeImages \cup EndImages
    /\ pc = "start"
    /\ phase = 1
    /\ ret = 0
    /\ status = 0
    /\ ctx = [mode |-> "_undef", total |-> 0, count |-> 0]
    /\ ps = NoParser
    /\ pk = NoPoke
    /\ fx3 = NoFx3
    /\ log = <<>>
    /\ pokes = <<>>
    /\ err = "none"

\* loads of the FX3 images with chunks of 4 GiB and more
InitFx3Wide ==
    /\ fx_type = FX_TYPE_FX3
    /\ img_type = IMG_TYPE_IMG
    /\ stage = 0
    /\ verbose \in {-1, 0, 1}
    /\ image \in Fx3WideImages
    /\ pc = "start"
    /\ phase = 1
    /\ ret = 0
    /\ status = 0
    /\ ctx = [mode |-> "_undef", total |-> 0, count |-> 0]
    /\ ps = NoParser
    /\ pk = NoPoke
    /\ fx3 = NoFx3
    /\ log = <<>>
    /\ pokes = <<>>
    /\ err = "none"

(***************************************************************************)
(* ezusb_load_ram, up to the first scan.                                   *)
(***************************************************************************)
\* iic_header_bad that only asks for the 8 bytes
iic_header_bad_short_only(fx, h) == h.n # 8

\* the test of the IIC header: 8 bytes, the first the chip's code
iic_header_bad(fx, h) ==
    \/ h.n # 8
    \/ ((fx = FX_TYPE_FX2LP \/ fx = FX_TYPE_FX2) /\ h.b0 # 194)
    \/ (fx = FX_TYPE_AN21 /\ h.b0 # 178)
    \/ (fx = FX_TYPE_FX1 /\ h.b0 # 182)

\* the mode of the first scan
first_mode(stg) == IF stg = 0 THEN "internal_only" ELSE "skip_internal"

\* halt_first with the test of the stage inverted
halt_first_inverted(stg, fx) == stg # 0 /\ cpucs_addr(fx) # 0

\* halt_first without the test of the stage
halt_first_always(stg, fx) == cpucs_addr(fx) # 0

\* the CPU is halted before the first scan
halt_first(stg, fx) == stg = 0 /\ cpucs_addr(fx) # 0

\* after_scan taking only a parse error for a failure, not -1 (a failed poke)
after_scan_lenient(st, stg, ph, fx) ==
    IF st < -1 THEN "fail"
    ELSE IF stg # 0 /\ ph = 1 THEN (IF cpucs_addr(fx) # 0 THEN "halt" ELSE "rescan")
    ELSE IF cpucs_addr(fx) # 0 THEN "run"
    ELSE "exit"

\* what follows a scan that returned st: "fail", "halt", "rescan", "run", "exit"
after_scan(st, stg, ph, fx) ==
    IF st < 0 THEN "fail"
    ELSE IF stg # 0 /\ ph = 1 THEN (IF cpucs_addr(fx) # 0 THEN "halt" ELSE "rescan")
    ELSE IF cpucs_addr(fx) # 0 THEN "run"
    ELSE "exit"

LoadRam ==
    /\ pc = "start"
    /\ fx_type # FX_TYPE_FX3
    /\ IF ~image.exists
       THEN /\ ret' = -2
            /\ pc' = "done"
            /\ UNCHANGED ctx
       ELSE IF img_type = IMG_TYPE_IIC /\ iic_header_bad(fx_type, image.header)
       THEN /\ ret' = -1
            /\ pc' = "done"
            /\ UNCHANGED ctx
       ELSE /\ ctx' = [ctx EXCEPT !.mode = first_mode(stage)]
            /\ pc' = IF halt_first(stage, fx_type) THEN "halt" ELSE "scan"
            /\ UNCHANGED ret
    /\ UNCHANGED <<inputs, phase, status, ps, pk, fx3, log, pokes, err>>

\* ezusb_cpucs(device, cpucs_addr, false)
Halt ==
    /\ pc = "halt"
    /\ \E st \in Statuses(1) :
         /\ log' = Append(log, Transfer("cpucs", RW_INTERNAL, ToU32(cpucs_addr(fx_type)), 1, 1, st, NoPoke))
         /\ IF ezusb_cpucs(st, FALSE)
            THEN /\ pc' = IF phase = 1 THEN "scan" ELSE "rescan"
                 /\ UNCHANGED <<ret, err>>
            ELSE /\ ret' = -1
                 /\ pc' = "done"
                 /\ err' = IF err = "none" THEN "halt" ELSE err
    /\ UNCHANGED <<inputs, phase, status, ctx, ps, pk, fx3, pokes>>

\* the parser parse[img_type] names; parse[] has IMG_TYPE_MAX entries and
\* three initializers, so parse[IMG_TYPE_IMG] is a null pointer
parse(it) ==
    IF it = IMG_TYPE_HEX THEN "ihex"
    ELSE IF it = IMG_TYPE_IIC THEN "iic"
    ELSE IF it = IMG_TYPE_BIX THEN "bin"
    ELSE "null"

\* the parser's locals on entry
EnterParser(fn) == [NoParser EXCEPT !.fn = fn, !.pos = IF fn = "bin" THEN 0 ELSE 1]

\* the first scan: parse[img_type](image, &ctx, is_external, ram_poke); the
\* call through the null pointer ends the process
Scan ==
    /\ pc = "scan"
    /\ ctx' = [ctx EXCEPT !.total = 0, !.count = 0]
    /\ IF parse(img_type) = "null"
       THEN /\ pc' = "crashed"
            /\ UNCHANGED ps
       ELSE /\ pc' = "parse"
            /\ ps' = EnterParser(parse(img_type))
    /\ UNCHANGED <<inputs, phase, ret, status, pk, fx3, log, pokes, err>>

(***************************************************************************)
(* The parsers.  Each is an operator from the parser's locals at the top   *)
(* of its loop to what one turn of the loop does: go round again, call     *)
(* poke(data_addr, external, data, data_len), or return a value; and an    *)
(* operator for what follows when poke has returned rc.                    *)
(***************************************************************************)
Loop(p) == [p |-> p, do |-> "loop", val |-> 0]
Call(p) == [p |-> p, do |-> "poke", val |-> 0]
Return(p, v) == [p |-> p, do |-> "return", val |-> v]

\* ihex_short that finds no record too short
ihex_short_never(line) == FALSE

\* ihex_short that takes a record that is too long for too short
ihex_short_strict(line) == (line.len * 2) + 11 # ihex_strlen(line)

\* (len * 2) + 11 > strlen(buf)
ihex_short(line) == (line.len * 2) + 11 > ihex_strlen(line)

\* ihex_must_flush without the test of the buffer's size
ihex_must_flush_gap_only(p, line) ==
    /\ p.data_len # 0
    /\ line.off # p.data_addr + p.data_len

\* the saved data is flushed before this record is added: it is not
\* contiguous, or the buffer would overflow
ihex_must_flush(p, line) ==
    /\ p.data_len # 0
    /\ \/ line.off # p.data_addr + p.data_len
       \/ p.data_len + line.len > IHEX_DATA_SIZE

\* append to saved data, flush later
ihex_append(p, line) ==
    [p EXCEPT !.data = p.data \o [i \in 1..line.len |-> <<p.pos, i>>],
              !.data_len = p.data_len + line.len,
              !.pos = p.pos + 1,
              !.at = "loop"]

\* ihex_flush that drops the data remaining
ihex_flush_none(p) == Return(p, 0)

\* after the loop: flush any data remaining
ihex_flush(p) ==
    IF p.data_len # 0 THEN Call([p EXCEPT !.at = "final"]) ELSE Return(p, 0)

\* data_addr = off; data_len = 0, after the flush in the loop
ihex_restart(p, line) ==
    [p EXCEPT !.data_addr = line.off, !.data_len = 0, !.data = <<>>]

parse_ihex(p, lines) ==
    IF p.pos > Len(lines) THEN ihex_flush(p)   \* EOF without EOF record
    ELSE LET line == lines[p.pos]
             q == IF p.first_line = 1
                  THEN [p EXCEPT !.data_addr = line.off, !.first_line = 0]
                  ELSE p
         IN  IF line.c0 = "#" THEN Loop([p EXCEPT !.pos = p.pos + 1])
             ELSE IF line.c0 # ":" THEN Return(p, -2)
             ELSE IF line.type = 1 THEN ihex_flush(q)
             ELSE IF line.type # 0 THEN Return(q, -3)
             ELSE IF ihex_short(line) THEN Return(q, -4)
             ELSE IF ihex_must_flush(q, line) THEN Call([q EXCEPT !.at = "mid"])
             ELSE Loop(ihex_append(q, line))

ihex_poked(p, lines, r) ==
    IF r < 0 THEN Return(p, -1)
    ELSE IF p.at = "final" THEN Return(p, 0)
    ELSE Loop(ihex_append(ihex_restart(p, lines[p.pos]), lines[p.pos]))

\* ftell(image) before block n of an IIC file, and the file's size
RECURSIVE iic_ftell(_, _)
iic_ftell(im, n) ==
    IF n <= 1 THEN 8 ELSE iic_ftell(im, n - 1) + 4 + im.blocks[n - 1].have

\* iic_file_size that takes the file for 5 bytes longer than it is
iic_file_size_long(im) == iic_ftell(im, Len(im.blocks) + 1) + im.trail + 5

iic_file_size(im) == iic_ftell(im, Len(im.blocks) + 1) + im.trail

parse_iic(p, im) ==
    IF iic_ftell(im, p.pos) >= iic_file_size(im) - 5 THEN Return(p, 0)
    ELSE IF p.pos > Len(im.blocks) THEN Return(p, -1)   \* no 4 bytes to read
    ELSE LET b == im.blocks[p.pos]
             q == [p EXCEPT !.data_len = b.len, !.data_addr = b.addr,
                            !.src = iic_ftell(im, p.pos) + 4]
         IN  IF b.len > BIN_DATA_SIZE THEN Return(q, -1)
             ELSE IF b.have # b.len THEN Return(q, -1)
             ELSE Call(q)

iic_poked(p, r) ==
    IF r < 0 THEN Return(p, -1) ELSE Loop([p EXCEPT !.pos = p.pos + 1])

\* bin_next_addr that leaves data_addr where it was
bin_next_addr_stuck(a, n) == a

\* data_addr += (uint32_t)data_len; the files of the model are far below 4 GiB
bin_next_addr(a, n) == a + n

parse_bin(p, im) ==
    LET n == Min(BIN_DATA_SIZE, im.size - p.pos)
    IN  IF n = 0 THEN Return([p EXCEPT !.data_len = 0], 0)
        ELSE Call([p EXCEPT !.data_len = n, !.src = p.pos, !.pos = p.pos + n])

bin_poked(p, r) ==
    IF r < 0 THEN Return(p, -1)
    ELSE Loop([p EXCEPT !.data_addr = bin_next_addr(p.data_addr, p.data_len)])

\* one turn of a parser, or its waking up after poke, takes effect
Step(r) ==
    /\ ps' = r.p
    /\ IF r.do = "loop"
       THEN /\ pc' = "parse"
            /\ UNCHANGED <<status, pk, err>>
       ELSE IF r.do = "poke"
       THEN /\ pc' = "poke"
            /\ pk' = [NoPoke EXCEPT !.addr = r.p.data_addr,
                                    !.external = is_external(fx_type, r.p.data_addr, r.p.data_len),
                                    !.len = r.p.data_len,
                                    !.data = r.p.data,
                                    !.src = r.p.src]
            /\ UNCHANGED <<status, err>>
       ELSE /\ pc' = "parsed"
            /\ status' = r.val
            /\ err' = IF r.val < 0 /\ err = "none" THEN "parse" ELSE err
            /\ UNCHANGED pk
    /\ UNCHANGED <<inputs, phase, ret, ctx, fx3, log, pokes>>

IhexLine == pc = "parse" /\ ps.fn = "ihex" /\ Step(parse_ihex(ps, ihex_lines(image, img_type)))

IicBlockStep == pc = "parse" /\ ps.fn = "iic" /\ Step(parse_iic(ps, image))

BinChunk == pc = "parse" /\ ps.fn = "bin" /\ Step(parse_bin(ps, image))

IhexPoked ==
    pc = "poke_ret" /\ ps.fn = "ihex" /\ Step(ihex_poked(ps, ihex_lines(image, img_type), pk.rc))

IicPoked == pc = "poke_ret" /\ ps.fn = "iic" /\ Step(iic_poked(ps, pk.rc))

BinPoked == pc = "poke_ret" /\ ps.fn = "bin" /\ Step(bin_poked(ps, pk.rc))

(***************************************************************************)
(* ram_poke: the switch on the mode, then the write loop.                  *)
(***************************************************************************)
PokeCall == [addr |-> pk.addr, external |-> pk.external, len |-> pk.len, data |-> pk.data,
             src |-> pk.src, mode |-> ctx.mode, phase |-> phase, fn |-> ps.fn]

RamPoke ==
    /\ pc = "poke"
    /\ pokes' = Append(pokes, PokeCall)
    /\ LET g == ram_poke_gate(ctx.mode, pk.external)
       IN  IF g = "write"
           THEN /\ ctx' = ram_poke_count(ctx, pk.len)
                /\ pc' = "write"
                /\ UNCHANGED <<pk, err>>
           ELSE /\ pk' = [pk EXCEPT !.rc = IF g = "skip" THEN 0
                                           ELSE IF g = "EINVAL" THEN -EINVAL
                                           ELSE -EDOM]
                /\ pc' = "poke_ret"
                /\ err' = IF g # "skip" /\ err = "none" THEN "poke" ELSE err
                /\ UNCHANGED ctx
    /\ UNCHANGED <<inputs, phase, ret, status, ps, fx3, log>>

\* one turn of while ((rc = ezusb_write(...)) < 0 && retry < RETRY_LIMIT)
Write ==
    /\ pc = "write"
    /\ \E st \in Statuses(pk.len) :
         LET r == ezusb_write(st, pk.len)
         IN  /\ log' = Append(log, Transfer("write", ram_poke_opcode(pk.external), ToU32(pk.addr),
                                            pk.len, -1, st, pk))
             /\ IF ram_poke_again(r, pk.retry)
                THEN /\ pk' = [pk EXCEPT !.retry = pk.retry + 1, !.rc = r,
                                         !.tries = Append(pk.tries, st)]
                     /\ pc' = "write"
                     /\ UNCHANGED err
                ELSE /\ pk' = [pk EXCEPT !.rc = r, !.tries = Append(pk.tries, st)]
                     /\ pc' = "poke_ret"
                     /\ err' = IF r < 0 /\ err = "none" THEN "poke" ELSE err
    /\ UNCHANGED <<inputs, phase, ret, status, ctx, ps, fx3, pokes>>

(***************************************************************************)
(* ezusb_load_ram, after a scan.                                           *)
(***************************************************************************)
Scanned ==
    /\ pc = "parsed"
    /\ LET a == after_scan(status, stage, phase, fx_type)
       IN  /\ pc' = IF a = "fail" \/ a = "exit" THEN "done" ELSE a
           /\ ret' = IF a = "fail" THEN status ELSE ret
           /\ ctx' = IF a = "halt" \/ a = "rescan"
                     THEN [ctx EXCEPT !.mode = "skip_external"] ELSE ctx
           /\ phase' = IF a = "halt" \/ a = "rescan" THEN 2 ELSE phase
    /\ UNCHANGED <<inputs, status, ps, pk, fx3, log, pokes, err>>

\* rewind(image); parse_ihex(image, &ctx, is_external, ram_poke), whatever
\* the image type
Rescan ==
    /\ pc = "rescan"
    /\ ps' = EnterParser("ihex")
    /\ pc' = "parse"
    /\ UNCHANGED <<inputs, phase, ret, status, ctx, pk, fx3, log, pokes, err>>

\* ezusb_cpucs(device, cpucs_addr, true)
Run ==
    /\ pc = "run"
    /\ \E st \in Statuses(1) :
         /\ log' = Append(log, Transfer("cpucs", RW_INTERNAL, ToU32(cpucs_addr(fx_type)), 1, 0, st, NoPoke))
         /\ ret' = IF ezusb_cpucs(st, TRUE) THEN ret ELSE -1
         /\ pc' = "done"
    /\ UNCHANGED <<inputs, phase, status, ctx, ps, pk, fx3, pokes, err>>

(***************************************************************************)
(* fx3_load_ram.                                                           *)
(***************************************************************************)
\* fx3_header_bad without the test of bImageType
fx3_header_bad_magic_only(h) ==
    \/ Len(h) # 4
    \/ h[1] # 67 \/ h[2] # 89

\* the header is refused: short, no "CY", or bImageType other than 0xB0
fx3_header_bad(h) ==
    \/ Len(h) # 4
    \/ h[1] # 67 \/ h[2] # 89
    \/ h[4] # 176

\* the bootloader version is read first
fx3_reads_version(v) == v # 0

\* dLength <<= 2, as uint32_t: 4n mod 2^32 = 4 * (n mod 2^30)
fx3_byte_length(n) == (n % 1073741824) * 4

\* dCheckSum += dImageBuf[i] over the chunk, as uint32_t
fx3_add_words(sum, c) == u32_sum(sum, u32_times(c.dLength, c.fill))

\* fx3_checksum_bad that only asks for the word to be there
fx3_checksum_unread(sum, w) == ~w.present

\* the checksum test fails
fx3_checksum_bad(sum, w) == ~w.present \/ sum # w.value

\* fx3_term_address that keeps the address the last sub-write reached
fx3_term_address_kept(d, term) == d

\* fread(&dAddress, ...) of the terminating chunk: dAddress becomes the
\* chunk's address field, and the jump goes there
fx3_term_address(d, term) == term.value

Fx3Fail(r) ==
    /\ ret' = r
    /\ pc' = "done"

Fx3Open ==
    /\ pc = "start"
    /\ fx_type = FX_TYPE_FX3
    /\ IF ~image.exists THEN Fx3Fail(-2)
       ELSE IF fx3_header_bad(image.fhdr) THEN Fx3Fail(-3)
       ELSE /\ pc' = IF fx3_reads_version(verbose) THEN "fx3_version" ELSE "fx3_chunk"
            /\ UNCHANGED ret
    /\ UNCHANGED <<inputs, phase, status, ctx, ps, pk, fx3, log, pokes, err>>

\* ezusb_read(device, "read bootloader version", RW_INTERNAL, 0xFFFF0020, blBuf, 4)
Fx3Version ==
    /\ pc = "fx3_version"
    /\ \E st \in Statuses(4) :
         /\ log' = Append(log, Transfer("read", RW_INTERNAL, U32(65535, 32), 4, -1, st, NoPoke))
         /\ IF ezusb_read(st) < 0 THEN Fx3Fail(-8)
            ELSE /\ pc' = "fx3_chunk"
                 /\ UNCHANGED ret
    /\ UNCHANGED <<inputs, phase, status, ctx, ps, pk, fx3, pokes, err>>

\* the top of while (1): read dLength and dAddress, then the chunk's words
Fx3ReadChunk ==
    /\ pc = "fx3_chunk"
    /\ IF fx3.ci <= Len(image.chunks)
       THEN LET c == image.chunks[fx3.ci]
            IN  IF c.have # c.dLength
                THEN /\ Fx3Fail(-3)
                     /\ fx3' = [fx3 EXCEPT !.dLength = c.dLength, !.dAddress = c.dAddress]
                ELSE /\ fx3' = [fx3 EXCEPT !.dCheckSum = fx3_add_words(fx3.dCheckSum, c),
                                           !.dLength = fx3_byte_length(c.dLength),
                                           !.dAddress = c.dAddress,
                                           !.off = 0,
                                           !.ci = IF fx3_byte_length(c.dLength) > 0
                                                  THEN fx3.ci ELSE fx3.ci + 1]
                     /\ pc' = IF fx3_byte_length(c.dLength) > 0 THEN "fx3_write"
                              ELSE "fx3_chunk"
                     /\ UNCHANGED ret
       ELSE IF image.term.present
       THEN /\ fx3' = [fx3 EXCEPT !.dLength = 0,
                                  !.dAddress = fx3_term_address(fx3.dAddress, image.term)]
            /\ pc' = "fx3_csum"
            /\ UNCHANGED ret
       ELSE /\ Fx3Fail(-3)
            /\ UNCHANGED fx3
    /\ UNCHANGED <<inputs, phase, status, ctx, ps, pk, log, pokes, err>>

\* ezusb_write(device, "write firmware", RW_INTERNAL, dAddress, bBuf, dLen)
Fx3Write ==
    /\ pc = "fx3_write"
    /\ LET n == Min(BIN_DATA_SIZE, fx3.dLength)
       IN  \E st \in Statuses(n) :
             /\ log' = Append(log, Transfer("write", RW_INTERNAL, fx3.dAddress, n, -1, st,
                                            [NoPoke EXCEPT !.src = fx3.off]))
             /\ fx3' = [fx3 EXCEPT !.dLen = n]
             /\ IF ezusb_write(st, n) < 0 THEN Fx3Fail(-5)
                ELSE /\ pc' = "fx3_read"
                     /\ UNCHANGED ret
    /\ UNCHANGED <<inputs, phase, status, ctx, ps, pk, pokes, err>>

\* ezusb_read(device, "read firmware", RW_INTERNAL, dAddress, rBuf, dLen), then
\* rBuf is compared with bBuf; val is 1 when they are equal
Fx3Read ==
    /\ pc = "fx3_read"
    /\ \E st \in Statuses(fx3.dLen), same \in {0, 1} :
         /\ st < 0 => same = 0
         /\ log' = Append(log, Transfer("read", RW_INTERNAL, fx3.dAddress, fx3.dLen, same, st,
                                        [NoPoke EXCEPT !.src = fx3.off]))
         /\ IF ezusb_read(st) < 0 THEN Fx3Fail(-5) /\ UNCHANGED fx3
            ELSE IF same = 0 THEN Fx3Fail(-6) /\ UNCHANGED fx3
            ELSE /\ fx3' = [fx3 EXCEPT !.dLength = fx3.dLength - fx3.dLen,
                                       !.dAddress = u32_add(fx3.dAddress, fx3.dLen),
                                       !.off = fx3.off + fx3.dLen,
                                       !.ci = IF fx3.dLength - fx3.dLen > 0
                                              THEN fx3.ci ELSE fx3.ci + 1]
                 /\ pc' = IF fx3.dLength - fx3.dLen > 0 THEN "fx3_write" ELSE "fx3_chunk"
                 /\ UNCHANGED ret
    /\ UNCHANGED <<inputs, phase, status, ctx, ps, pk, pokes, err>>

\* read pre-computed checksum data
Fx3Checksum ==
    /\ pc = "fx3_csum"
    /\ IF fx3_checksum_bad(fx3.dCheckSum, image.csum) THEN Fx3Fail(-7)
       ELSE /\ pc' = "fx3_jump"
            /\ UNCHANGED ret
    /\ UNCHANGED <<inputs, phase, status, ctx, ps, pk, fx3, log, pokes, err>>

\* ezusb_fx3_jump(device, dAddress)
Fx3Jump ==
    /\ pc = "fx3_jump"
    /\ \E st \in Statuses(0) :
         /\ log' = Append(log, Transfer("jump", RW_INTERNAL, fx3.dAddress, 0, -1, st, NoPoke))
         /\ ret' = IF ezusb_fx3_jump(st) THEN ret ELSE -6
         /\ pc' = "done"
    /\ UNCHANGED <<inputs, phase, status, ctx, ps, pk, fx3, pokes, err>>

(***************************************************************************)
(* The specification.                                                      *)
(***************************************************************************)
Next ==
    \/ LoadRam
    \/ Halt
    \/ Scan
    \/ IhexLine
    \/ IicBlockStep
    \/ BinChunk
    \/ RamPoke
    \/ Write
    \/ IhexPoked
    \/ IicPoked
    \/ BinPoked
    \/ Scanned
    \/ Rescan
    \/ Run
    \/ Fx3Open
    \/ Fx3Version
    \/ Fx3ReadChunk
    \/ Fx3Write
    \/ Fx3Read
    \/ Fx3Checksum
    \/ Fx3Jump

Spec == Init /\ [][Next]_vars

\* the loader is one sequential program and every control transfer returns:
\* a step that can be taken is taken
FairSpec == Spec /\ WF_vars(Next)

\* the steps of an upload of an Intel HEX image into an FX2LP
NextIhex ==
    \/ LoadRam
    \/ Halt
    \/ Scan
    \/ IhexLine
    \/ RamPoke
    \/ Write
    \/ IhexPoked
    \/ Scanned
    \/ Rescan
    \/ Run

SpecIhex == InitIhex /\ [][NextIhex]_vars

\* the steps of fx3_load_ram
NextFx3 ==
    \/ Fx3Open
    \/ Fx3Version
    \/ Fx3ReadChunk
    \/ Fx3Write
    \/ Fx3Read
    \/ Fx3Checksum
    \/ Fx3Jump

SpecFx3Wide == InitFx3Wide /\ [][NextFx3]_vars

TypeOK ==
    /\ pc \in {"start", "halt", "scan", "parse", "poke", "write", "poke_ret", "parsed",
               "rescan", "run", "done", "crashed", "fx3_version", "fx3_chunk", "fx3_write",
               "fx3_read", "fx3_csum", "fx3_jump"}
    /\ ctx.mode \in {"_undef", "internal_only", "skip_internal", "skip_external"}
    /\ ps.data_len = Len(ps.data) \/ ps.fn # "ihex"

(***************************************************************************)
(* What the log and the image say, for the properties below.               *)
(***************************************************************************)
NonFx3 == fx_type # FX_TYPE_FX3

IsHalt(e) == e.kind = "cpucs" /\ e.val = 1
IsRun(e) == e.kind = "cpucs" /\ e.val = 0
IsWrite(e) == e.kind = "write"
IsFirstTry(e) == e.kind = "write" /\ e.retry = 0
IsWritten(e) == e.kind = "write" /\ e.status >= 0
InPhase1(e) == e.phase = 1
InPhase2(e) == e.phase = 2
IsExternal(k) == k.external
IsInternal(k) == ~k.external

Halts == { i \in DOMAIN log : IsHalt(log[i]) }
Runs == { i \in DOMAIN log : IsRun(log[i]) }

RECURSIVE SumLen(_)
SumLen(sq) == IF sq = <<>> THEN 0 ELSE Head(sq).len + SumLen(Tail(sq))

\* the records of an Intel HEX file: the lines before the first end-of-file
\* record, comments left out
RECURSIVE UpToEof(_)
UpToEof(ls) ==
    IF ls = <<>> \/ (Head(ls).c0 = ":" /\ Head(ls).type = 1) THEN <<>>
    ELSE <<Head(ls)>> \o UpToEof(Tail(ls))

IsRecord(l) == l.c0 = ":"
HexRecords(ls) == SelectSeq(UpToEof(ls), IsRecord)

\* each record starts where the one before it ends
Contiguous(rs) == \A k \in 1..(Len(rs) - 1) : rs[k + 1].off = rs[k].off + rs[k].len

\* the records of the image make up one on-chip segment of 1 to 1023 bytes
OneSegment ==
    LET rs == HexRecords(image.lines)
    IN  /\ img_type = IMG_TYPE_HEX
        /\ rs # <<>>
        /\ Contiguous(rs)
        /\ SumLen(rs) \in 1..IHEX_DATA_SIZE
        /\ ~is_external(fx_type, rs[1].off, SumLen(rs))

\* every transfer so far moved all its bytes
NoTransportErrors == \A i \in DOMAIN log : log[i].status = log[i].len

\* C1: a single-stage upload that succeeds issues exactly one CPU halt, before
\* any memory write, makes one parser pass in mode internal_only, and issues
\* exactly one CPU run, after the last memory write; when the image's records
\* merge into one on-chip segment of n bytes there is exactly one write call,
\* total = n and count = 1.
C1_SingleStage ==
    (pc = "done" /\ NonFx3 /\ stage = 0 /\ ret = 0) =>
        /\ Len(log) >= 2
        /\ IsHalt(log[1])
        /\ IsRun(log[Len(log)])
        /\ \A i \in 2..(Len(log) - 1) : IsWrite(log[i])
        /\ phase = 1
        /\ \A i \in DOMAIN pokes : pokes[i].mode = "internal_only" /\ pokes[i].phase = 1
        /\ OneSegment =>
             /\ Len(log) = 3
             /\ log[2].len = SumLen(HexRecords(image.lines))
             /\ ToU32(HexRecords(image.lines)[1].off) = U32(log[2].wIndex, log[2].wValue)
             /\ ctx.total = SumLen(HexRecords(image.lines))
             /\ ctx.count = 1

\* C1 happens: two records were merged into one segment of 3 bytes and written
C1_Witness ==
    /\ pc = "done" /\ NonFx3 /\ stage = 0 /\ ret = 0
    /\ OneSegment
    /\ Len(HexRecords(image.lines)) = 2
    /\ ctx.total = 3

\* C2: a two-stage upload whose first scan succeeds, without transport errors:
\* phase 1 issues no halt and writes exactly the external segments; then one
\* halt; phase 2 re-parses the same segments and writes exactly the internal
\* ones; then one run, and the upload succeeds.
C2_TwoStage ==
    (pc = "done" /\ NonFx3 /\ stage # 0 /\ phase = 2 /\ NoTransportErrors) =>
        LET p1 == SelectSeq(pokes, InPhase1)
            p2 == SelectSeq(pokes, InPhase2)
            l1 == SelectSeq(log, InPhase1)
            l2 == SelectSeq(log, InPhase2)
            seg(k) == [addr |-> k.addr, len |-> k.len]
            wr(e) == [addr |-> e.wIndex * TwoTo16 + e.wValue, len |-> e.len]
            ext1 == SelectSeq(p1, IsExternal)
            int1 == SelectSeq(p1, IsInternal)
        IN  /\ ret = 0
            /\ log = l1 \o l2
            /\ \A i \in DOMAIN l1 : IsWrite(l1[i]) /\ l1[i].req = RW_MEMORY
            /\ Len(l1) = Len(ext1)
            /\ \A i \in DOMAIN l1 : wr(l1[i]) = seg(ext1[i])
            /\ Len(p2) = Len(p1)
            /\ \A i \in DOMAIN p1 : seg(p2[i]) = seg(p1[i]) /\ p2[i].external = p1[i].external
            /\ Len(l2) = Len(int1) + 2
            /\ IsHalt(l2[1])
            /\ IsRun(l2[Len(l2)])
            /\ \A i \in DOMAIN int1 :
                 /\ IsWrite(l2[i + 1])
                 /\ l2[i + 1].req = RW_INTERNAL
                 /\ wr(l2[i + 1]) = seg(int1[i])

\* C2 restricted to Intel HEX images, the one format the rescan parses
C2_TwoStageHex == img_type = IMG_TYPE_HEX => C2_TwoStage

\* a two-stage upload of an Intel HEX image with an internal and an external
\* segment ran to its end
C2_HexWitness ==
    /\ pc = "done" /\ NonFx3 /\ stage # 0 /\ phase = 2 /\ NoTransportErrors
    /\ img_type = IMG_TYPE_HEX
    /\ Len(SelectSeq(SelectSeq(pokes, InPhase1), IsExternal)) = 1
    /\ Len(SelectSeq(SelectSeq(pokes, InPhase1), IsInternal)) = 1

\* C3: when every write attempt of a poke fails with a timeout, the poke makes
\* exactly 5 attempts and then returns failure.
C3_RetryBound ==
    (/\ pc = "poke_ret"
     /\ pk.tries # <<>>
     /\ \A i \in DOMAIN pk.tries : pk.tries[i] = LIBUSB_ERROR_TIMEOUT) =>
        Len(pk.tries) = 5 /\ pk.rc < 0

\* C4: a write attempt that fails with an error other than a timeout is the
\* only attempt of its poke, and the poke returns failure.
C4_NoRetry ==
    \A i \in DOMAIN pk.tries :
        (pk.tries[i] < 0 /\ pk.tries[i] # LIBUSB_ERROR_TIMEOUT) =>
            Len(pk.tries) = 1 /\ pk.rc < 0 /\ pc # "write"

\* C4 happens: a poke has returned after one attempt that ended in an I/O error
C4_Witness ==
    pc = "poke_ret" /\ pk.tries = <<LIBUSB_ERROR_IO>> /\ pk.rc < 0

\* C5: once a halt, a parser or a poke has reported an error, no transfer is
\* issued any more (no CPU run, no memory write), and ezusb_load_ram returns a
\* negative value.
C5_AbortNoRun ==
    /\ [][err # "none" => log' = log]_vars
    /\ [](err # "none" /\ pc = "done" => ret < 0)

\* C5 happens: an upload that had halted the CPU and written memory has ended
\* after an error
C5_Witness ==
    /\ pc = "done" /\ err # "none"
    /\ Len(log) >= 3
    /\ IsHalt(log[1])

\* a parser or a poke has reported an error and the upload is over
FatalEnd == pc = "done" /\ NonFx3 /\ err \in {"poke", "parse"}

\* C6 as claimed: whenever a non-FX3 upload ends with a parser or poke error,
\* in single-stage mode or in either phase of a two-stage upload, a halt
\* request was sent and no run request followed it.
C6_LeftHalted == FatalEnd => (Halts # {} /\ Runs = {})

\* C6 amended: after a parser or poke error in single-stage mode or in phase 2
\* of a two-stage upload exactly one halt request was sent, it succeeded, and
\* no run request followed; after such an error in phase 1 of a two-stage
\* upload neither a halt nor a run request was sent: the CPU is left running.
C6_Posture ==
    FatalEnd =>
        IF stage = 0 \/ phase = 2
        THEN /\ Cardinality(Halts) = 1
             /\ \A i \in Halts : log[i].status = 1
             /\ Runs = {}
        ELSE Halts = {} /\ Runs = {}

\* C6 happens: phase 1 of a two-stage upload wrote a segment and the write of
\* the next one failed
C6_Witness == FatalEnd /\ stage # 0 /\ phase = 1 /\ err = "poke" /\ Len(log) >= 2

\* C7: a step of ram_poke.  (internal_only, external) returns -EINVAL with no
\* transfer; (skip_internal, internal) and (skip_external, external) return 0
\* with no transfer and leave total and count as they are; every other
\* combination goes on to the vendor write, which issues a transfer with the
\* opcode of the segment's class.
C7_ModeGating ==
    [][/\ pc = "poke" =>
            IF ctx.mode = "internal_only" /\ pk.external
            THEN pc' = "poke_ret" /\ pk'.rc = -EINVAL /\ log' = log /\ ctx' = ctx
            ELSE IF \/ ctx.mode = "skip_internal" /\ ~pk.external
                    \/ ctx.mode = "skip_external" /\ pk.external
            THEN pc' = "poke_ret" /\ pk'.rc = 0 /\ log' = log /\ ctx' = ctx
            ELSE pc' = "write" /\ log' = log
       /\ pc = "write" =>
            /\ Len(log') = Len(log) + 1
            /\ IsWrite(log'[Len(log')])
            /\ log'[Len(log')].req = (IF pk.external THEN RW_MEMORY ELSE RW_INTERNAL)
      ]_vars

\* C7 happens: in the rescan, with the CPU halted, an external segment was
\* skipped after an internal one was written
C7_Witness ==
    /\ pc = "poke_ret" /\ ctx.mode = "skip_external" /\ pk.external
    /\ pk.rc = 0 /\ pk.tries = <<>>
    /\ ctx.count = 1

\* the transfers that wrote a segment, and those that began the write of one
Written == SelectSeq(log, IsWritten)
Tried == SelectSeq(log, IsFirstTry)

\* no poke is between its counting and its write
BetweenPokes == NonFx3 /\ pc # "write"

\* C8 as claimed: total is the sum of the lengths of the segments whose write
\* succeeded and count their number; a segment whose write failed adds to
\* neither.
C8_SuccessfulOnly ==
    BetweenPokes => ctx.total = SumLen(Written) /\ ctx.count = Len(Written)

\* C8 amended: total is the sum of the lengths of the segments that passed the
\* mode gate, that is whose vendor write was issued, whether it succeeded or
\* failed, and count is their number; a skipped or refused segment adds to
\* neither; in an upload that returns 0 these are the segments whose write
\* succeeded.
C8_Totals ==
    /\ BetweenPokes => ctx.total = SumLen(Tried) /\ ctx.count = Len(Tried)
    /\ (NonFx3 /\ pc = "done" /\ ret = 0) =>
          ctx.total = SumLen(Written) /\ ctx.count = Len(Written)

\* C8 happens: the second write of an upload has failed and both segments are
\* counted
C8_Witness ==
    /\ pc = "poke_ret" /\ pk.rc < 0 /\ pk.tries # <<>>
    /\ ctx.count = 2
    /\ Len(Written) = 1

\* C9: a CPUCS write that halts succeeds only with status 1; one that runs
\* succeeds with status 1 or with an I/O error, and with nothing else; the FX3
\* jump succeeds with status 0 or with an I/O error, and with nothing else; a
\* failed halt, run or jump makes the upload fail.  A memory write or a
\* read-back that ends in an I/O error is the last transfer and the upload
\* fails.
C9_IoTolerance ==
    \A i \in DOMAIN log :
        LET e == log[i]
        IN  /\ (IsHalt(e) /\ e.status # 1) =>
                  i = Len(log) /\ pc = "done" /\ ret < 0
            /\ IsRun(e) =>
                  /\ i = Len(log) /\ pc = "done"
                  /\ IF e.status = 1 \/ e.status = LIBUSB_ERROR_IO THEN ret = 0 ELSE ret < 0
            /\ e.kind = "jump" =>
                  /\ i = Len(log) /\ pc = "done"
                  /\ IF e.status = 0 \/ e.status = LIBUSB_ERROR_IO THEN ret = 0 ELSE ret < 0
            /\ (e.kind \in {"write", "read"} /\ e.status = LIBUSB_ERROR_IO) =>
                  /\ i = Len(log)
                  /\ pc \in {"poke_ret", "parsed", "done"}
                  /\ pc = "done" => ret < 0

\* C9 happens: the run request of an upload that wrote memory ended in an I/O
\* error and the upload returned 0
C9_Witness ==
    /\ pc = "done" /\ ret = 0 /\ Len(log) >= 3
    /\ IsRun(log[Len(log)])
    /\ log[Len(log)].status = LIBUSB_ERROR_IO

\* the calls of poke of the scan that is running or has just ended
PassPokes == IF phase = 1 THEN SelectSeq(pokes, InPhase1) ELSE SelectSeq(pokes, InPhase2)

\* start addresses ascend and the ranges [addr, addr + len) do not overlap
Ascending(sq) ==
    \A i, j \in DOMAIN sq : i < j => sq[i].addr + sq[i].len <= sq[j].addr

\* the records a parser that has returned 0 went through, in file order
InputRecords ==
    IF ps.fn = "ihex"
    THEN [k \in DOMAIN HexRecords(ihex_lines(image, img_type)) |->
            [addr |-> HexRecords(ihex_lines(image, img_type))[k].off,
             len |-> HexRecords(ihex_lines(image, img_type))[k].len]]
    ELSE IF ps.fn = "iic"
    THEN [k \in 1..(ps.pos - 1) |-> [addr |-> image.blocks[k].addr, len |-> image.blocks[k].len]]
    ELSE <<>>

\* C10 as claimed: when a parser returns success its calls of poke have
\* ascending start addresses and ranges that do not overlap.
C10_AscendingPokes == (NonFx3 /\ pc = "parsed" /\ status = 0) => Ascending(PassPokes)

\* C10 amended: the parsers call poke in the order of the file; when a parser
\* returns success and the records of the input have ascending addresses and
\* do not overlap (the chunks of a binary image always do), the calls of poke
\* have ascending start addresses and ranges that do not overlap.
C10_OrderKept ==
    (NonFx3 /\ pc = "parsed" /\ status = 0 /\ Ascending(InputRecords)) => Ascending(PassPokes)

\* C10 happens: parse_ihex has returned success after two calls of poke
C10_Witness ==
    /\ NonFx3 /\ pc = "parsed" /\ status = 0 /\ ps.fn = "ihex"
    /\ Ascending(InputRecords)
    /\ Len(PassPokes) = 2

(***************************************************************************)
(* Intel HEX: what a file declares and what the parser emits.              *)
(***************************************************************************)
IsEofRecord(l) == l.c0 = ":" /\ l.type = 1
IsComment(l) == l.c0 = "#"
\* a data record whose line holds the bytes it declares and a checksum
IsDataRecord(l) == l.c0 = ":" /\ l.type = 0 /\ l.npairs = l.len + 1

\* data records and comments, closed by the one end-of-file record
ValidHex(ls) ==
    /\ ls # <<>>
    /\ IsEofRecord(ls[Len(ls)])
    /\ \A n \in 1..(Len(ls) - 1) : IsComment(ls[n]) \/ IsDataRecord(ls[n])

\* no data record of the file is empty
NoEmptyRecord(ls) == \A n \in DOMAIN ls : IsDataRecord(ls[n]) => ls[n].len > 0

\* the bytes the data records declare, each with the address declared for it
DeclaredBytes(ls) ==
    UNION { { <<ls[n].off + i - 1, <<n, i>>>> : i \in 1..ls[n].len } :
              n \in { m \in DOMAIN ls : IsDataRecord(ls[m]) } }

\* the bytes of the segments poked, each with the address it is poked to
PokedBytes(sq) ==
    UNION { { <<sq[k].addr + i - 1, sq[k].data[i]>> : i \in 1..sq[k].len } : k \in DOMAIN sq }

\* parse_ihex has returned success on a valid Intel HEX file
IhexParsed ==
    /\ NonFx3 /\ img_type = IMG_TYPE_HEX /\ ps.fn = "ihex"
    /\ pc = "parsed" /\ status = 0
    /\ ValidHex(image.lines)

\* C11: Intel HEX round trip.  When parse_ihex returns success on a valid file
\* (data records, comments, one end-of-file record), the bytes of the segments
\* it poked, at the addresses it poked them to, are exactly the bytes of the
\* data records at the addresses the records declare.
C11_RoundTrip == IhexParsed => PokedBytes(PassPokes) = DeclaredBytes(image.lines)

\* the round trip of the files without an empty data record
C11_RoundTripNoEmptyRecord ==
    (IhexParsed /\ NoEmptyRecord(image.lines)) => PokedBytes(PassPokes) = DeclaredBytes(image.lines)

\* a file of more than 1023 bytes in several records went round
C11_NoEmptyRecordWitness ==
    /\ IhexParsed /\ NoEmptyRecord(image.lines)
    /\ Len(PassPokes) = 2
    /\ Cardinality(DeclaredBytes(image.lines)) > IHEX_DATA_SIZE

\* the line parse_ihex is at, and whether it is a data record it accepts
IhexCur == ihex_lines(image, img_type)[ps.pos]

AtDataRecord ==
    /\ pc = "parse" /\ ps.fn = "ihex"
    /\ ps.pos <= Len(ihex_lines(image, img_type))
    /\ IhexCur.c0 = ":" /\ IhexCur.type = 0 /\ IhexCur.npairs >= IhexCur.len + 1

\* the bytes of the record parse_ihex is at
IhexCurBytes == [i \in 1..IhexCur.len |-> <<ps.pos, i>>]

\* the step of parse_ihex at a data record, with a segment pending: the record
\* is appended iff it starts where the segment ends and fits into 1023 bytes,
\* else the segment is poked, and when poke has returned the record is the new
\* segment
MergeStep ==
    /\ (AtDataRecord /\ ps.data_len # 0) =>
          IF /\ IhexCur.off = ps.data_addr + ps.data_len
             /\ ps.data_len + IhexCur.len <= IHEX_DATA_SIZE
          THEN /\ pc' = "parse"
               /\ ps'.data_addr = ps.data_addr
               /\ ps'.data = ps.data \o IhexCurBytes
               /\ ps'.data_len = ps.data_len + IhexCur.len
               /\ pokes' = pokes
          ELSE /\ pc' = "poke"
               /\ pk'.addr = ps.data_addr /\ pk'.len = ps.data_len /\ pk'.data = ps.data
    /\ (pc = "poke_ret" /\ ps.fn = "ihex" /\ ps.at = "mid" /\ pk.rc >= 0) =>
          /\ pc' = "parse"
          /\ ps'.data_addr = IhexCur.off
          /\ ps'.data = IhexCurBytes
          /\ ps'.data_len = IhexCur.len

\* the step of parse_ihex at a data record, with no segment pending: the
\* record is the new segment, at the record's address
StartStep ==
    (AtDataRecord /\ ps.data_len = 0) =>
        /\ pc' = "parse"
        /\ ps'.data_addr = IhexCur.off
        /\ ps'.data = IhexCurBytes
        /\ ps'.data_len = IhexCur.len
        /\ pokes' = pokes

\* C12: Intel HEX segment merging.  A data record is appended to the pending
\* segment iff its address is the segment's address plus the segment's length
\* and the two lengths together are at most 1023; otherwise the pending segment
\* is poked first and a new segment starts at the record's address.
C12_Merging == [][MergeStep /\ StartStep]_vars

\* the merging of a record into a segment that holds bytes
C12_MergingPending == [][MergeStep]_vars

\* a segment of 1023 bytes was made of five records
C12_PendingWitness ==
    /\ pc = "poke" /\ ps.fn = "ihex" /\ pk.len = IHEX_DATA_SIZE
    /\ ps.pos = 6

\* parse_ihex is at a line that is no record and no comment, at a record of a
\* type other than 00 and 01, or at a data record shorter than it declares
AtMalformedHex ==
    /\ pc = "parse" /\ ps.fn = "ihex"
    /\ ps.pos <= Len(ihex_lines(image, img_type))
    /\ \/ IhexCur.c0 \notin {":", "#"}
       \/ IhexCur.c0 = ":" /\ IhexCur.type \notin {0, 1}
       \/ IhexCur.c0 = ":" /\ IhexCur.type = 0 /\ IhexCur.npairs < IhexCur.len + 1

\* parse_iic is at a block, before the last 5 bytes of the file, that is
\* longer than 4096 bytes or whose payload is cut
AtMalformedIic ==
    /\ pc = "parse" /\ ps.fn = "iic"
    /\ iic_ftell(image, ps.pos) < iic_file_size(image) - 5
    /\ ps.pos <= Len(image.blocks)
    /\ \/ image.blocks[ps.pos].len > BIN_DATA_SIZE
       \/ image.blocks[ps.pos].have < image.blocks[ps.pos].len

\* C13: parse errors stop the poke stream.  At a malformed record the parser
\* returns a negative value in that very step, without a call of poke and
\* without a transfer, and once a parser has returned a negative value poke is
\* never called again, not even for the data buffered from earlier records.
C13_ParseErrorStops ==
    [][/\ (AtMalformedHex \/ AtMalformedIic) =>
            pc' = "parsed" /\ status' < 0 /\ pokes' = pokes /\ log' = log
       /\ status < 0 => pokes' = pokes /\ log' = log
      ]_vars

\* C13 happens: parse_ihex has returned an error at the second line while the
\* bytes of the first were buffered, and the upload has ended without a poke
C13_Witness ==
    /\ pc = "done" /\ ps.fn = "ihex" /\ status < -1
    /\ ps.pos = 2 /\ ps.data_len > 0
    /\ pokes = <<>>

\* parse_iic has returned an error at a block whose payload is cut, after the
\* block before it was poked
C13_IicWitness ==
    /\ pc = "parsed" /\ ps.fn = "iic" /\ status = -1
    /\ ps.pos = 2 /\ image.blocks[2].have < image.blocks[2].len
    /\ Len(pokes) = 1 /\ pk.rc >= 0

\* parse_ihex is at a record of type 00
AtType00 ==
    /\ pc = "parse" /\ ps.fn = "ihex"
    /\ ps.pos <= Len(ihex_lines(image, img_type))
    /\ IhexCur.c0 = ":" /\ IhexCur.type = 0

\* the characters of the line parse_ihex is at, the newline left out
IhexCurChars == 9 + 2 * IhexCur.npairs

Segments(sq) == [k \in DOMAIN sq |-> [addr |-> sq[k].addr, len |-> sq[k].len]]

\* C15: the re-parse of a two-stage upload is format-agnostic.  In phase 2 the
\* parser that runs is the one the dispatch names for the image type, the one
\* phase 1 ran, and when it has returned it has decoded the segments phase 1
\* decoded.
C15_SameParser ==
    (NonFx3 /\ phase = 2 /\ pc \in {"parse", "poke", "write", "poke_ret", "parsed"}) =>
        /\ ps.fn = parse(img_type)
        /\ pc = "parsed" =>
             Segments(SelectSeq(pokes, InPhase2)) = Segments(SelectSeq(pokes, InPhase1))

(***************************************************************************)
(* The on-chip windows [lo, hi) of the chips, and the addresses and        *)
(* lengths around their ends.                                              *)
(***************************************************************************)
Window(l, h) == [lo |-> l, hi |-> h]

Windows(fx) ==
    IF fx = FX_TYPE_FX2 THEN {Window(0, 8192), Window(57344, 57856)}
    ELSE IF fx = FX_TYPE_FX2LP THEN {Window(0, 16384), Window(57344, 57856)}
    ELSE {Window(0, 6976)}

InWindow(fx, addr, len) ==
    \E w \in Windows(fx) : addr >= w.lo /\ addr < w.hi /\ addr + len <= w.hi

ClassifierAddrs ==
    {0, 1, 6974, 6975, 6976, 6977, 8190, 8191, 8192, 8193, 16382, 16383, 16384, 16385,
     57342, 57343, 57344, 57345, 57854, 57855, 57856, 57857, 65535}

ClassifierLens == {0, 1, 2, 3, 511, 512, 513, 6976, 8192, 16384, 57856, 65536}

ClassifierTable ==
    \A fx \in FxTypes \ {FX_TYPE_FX3} : \A a \in ClassifierAddrs : \A l \in ClassifierLens :
        is_external(fx, a, l) = ~InWindow(fx, a, l)

\* C16: the memory region classifier returns internal exactly when the address
\* lies in an on-chip window of the chip and address + length does not pass
\* the window's end, for the addresses and lengths around the windows' ends
\* and for every segment handed to poke; for FX2 (0x1FFF, 1) and (0xE1FF, 1)
\* are internal, (0x1FFF, 2) and (0xE200, 1) external.
C16_Classifier ==
    /\ ClassifierTable
    /\ ~fx2_is_external(8191, 1)
    /\ fx2_is_external(8191, 2)
    /\ ~fx2_is_external(57855, 1)
    /\ fx2_is_external(57856, 1)
    /\ (NonFx3 /\ pc = "poke") => pk.external = ~InWindow(fx_type, pk.addr, pk.len)

\* C16 happens: on an FX2 the segment (0x1FFF, 2) is handed to poke as external
C16_Witness ==
    /\ pc = "poke" /\ fx_type = FX_TYPE_FX2
    /\ pk.addr = 8191 /\ pk.len = 2 /\ pk.external

(***************************************************************************)
(* The FX3 loader.                                                         *)
(***************************************************************************)
IsFx3 == fx_type = FX_TYPE_FX3
IsJump(e) == e.kind = "jump"
IsRead(e) == e.kind = "read"
Jumps == { i \in DOMAIN log : IsJump(log[i]) }

\* the trailing word of the image is there and is the sum of the data words
ChecksumGood == image.csum.present /\ image.csum.value = Fx3Sum(image.chunks)

\* C17: the FX3 checksum gate.  After the terminating chunk the checksum held
\* is the sum of all data words of all chunks modulo 2^32; when the trailing
\* word differs from it or cannot be read the load fails with -7 and without a
\* transfer; a jump is only ever issued for an image whose trailing word is
\* that sum.
C17_ChecksumGate ==
    /\ [](IsFx3 => /\ pc = "fx3_csum" => fx3.dCheckSum = Fx3Sum(image.chunks)
                   /\ (pc = "fx3_jump" \/ Jumps # {}) => ChecksumGood
                   /\ (pc = "done" /\ ret = -7) => ~ChecksumGood /\ Jumps = {})
    /\ [][pc = "fx3_csum" =>
            IF ChecksumGood THEN pc' = "fx3_jump" /\ log' = log
            ELSE pc' = "done" /\ ret' = -7 /\ log' = log]_vars

\* C17 happens: a chunk of 1025 words 0xFFFFFFFF was written and read back,
\* the trailing word is one more than the sum, and the load has failed
C17_Witness ==
    /\ IsFx3 /\ pc = "done" /\ ret = -7
    /\ image.csum.present
    /\ Len(image.chunks) = 1 /\ image.chunks[1].dLength = 1025
    /\ Jumps = {}

\* the transfers of the FX3 loader after the read of the bootloader version
Fx3Body == IF verbose # 0 /\ log # <<>> THEN Tail(log) ELSE log

\* the sub-writes of `bytes` bytes from addr on, off bytes into their chunk
RECURSIVE SubWrites(_, _, _)
SubWrites(addr, bytes, off) ==
    IF bytes = 0 THEN <<>>
    ELSE <<[addr |-> addr, len |-> Min(4096, bytes), src |-> off]>>
         \o SubWrites(u32_add(addr, Min(4096, bytes)), bytes - Min(4096, bytes),
                      off + Min(4096, bytes))

\* the sub-writes of the chunks of an image, in the order of the file
RECURSIVE ChunkWrites(_)
ChunkWrites(cs) ==
    IF cs = <<>> THEN <<>>
    ELSE SubWrites(Head(cs).dAddress, 4 * Head(cs).dLength, 0) \o ChunkWrites(Tail(cs))

\* a write, a read or a compare of the FX3 loader that failed
Fx3Failed(e) ==
    \/ IsWrite(e) /\ e.status < 0
    \/ IsRead(e) /\ (e.status < 0 \/ e.val = 0)

\* C18: FX3 write-then-verify.  The writes are the chunks' sub-writes of at
\* most 4096 bytes at consecutive addresses, in order, each with RW_INTERNAL;
\* each is followed at once by a read of the same address and length; all
\* sub-writes of all chunks are done when the checksum is reached; a failed
\* write or read, or a read-back that differs, is the last transfer, the load
\* fails, and no jump is issued.
C18_WriteVerify ==
    IsFx3 =>
        LET b == Fx3Body
            w == SelectSeq(b, IsWrite)
            x == ChunkWrites(image.chunks)
        IN  /\ Len(w) <= Len(x)
            /\ \A i \in DOMAIN w :
                 /\ w[i].req = RW_INTERNAL
                 /\ w[i].len <= 4096
                 /\ [addr |-> U32(w[i].wIndex, w[i].wValue), len |-> w[i].len, src |-> w[i].src] = x[i]
            /\ pc = "fx3_csum" => Len(w) = Len(x)
            /\ \A i \in DOMAIN b :
                 /\ (i % 2 = 1 /\ ~IsJump(b[i])) => IsWrite(b[i])
                 /\ i % 2 = 0 =>
                      /\ IsRead(b[i])
                      /\ b[i].req = RW_INTERNAL
                      /\ b[i].wValue = b[i - 1].wValue /\ b[i].wIndex = b[i - 1].wIndex
                      /\ b[i].len = b[i - 1].len
                 /\ IsJump(b[i]) => i = Len(b)
                 /\ Fx3Failed(b[i]) => i = Len(b) /\ pc = "done" /\ ret < 0
            /\ pc = "fx3_read" => b # <<>> /\ IsWrite(b[Len(b)])

\* C18 happens: the second sub-write of a chunk of 4100 bytes, at the address
\* after the first, was read back with a difference and the load has failed
C18_Witness ==
    /\ IsFx3 /\ pc = "done" /\ ret = -6
    /\ Len(Fx3Body) = 4
    /\ IsRead(Fx3Body[4]) /\ Fx3Body[4].val = 0 /\ Fx3Body[4].status = 4
    /\ Fx3Body[1].len = 4096 /\ Fx3Body[3].len = 4

\* the address of a transfer, as uint32_t
AddrOf(e) == U32(e.wIndex, e.wValue)

\* an FX3 load that wrote memory has succeeded
Fx3Loaded == IsFx3 /\ pc = "done" /\ ret = 0 /\ SelectSeq(log, IsWrite) # <<>>

\* the last sub-write of a load
LastWrite == SelectSeq(log, IsWrite)[Len(SelectSeq(log, IsWrite))]

\* C19 as claimed: after a successful load the jump is issued exactly once and
\* is addressed to the last-written address, the address the final sub-write
\* of the last data chunk reached (its first byte, or the byte after its last).
C19_JumpLastWritten ==
    Fx3Loaded =>
        /\ Cardinality(Jumps) = 1
        /\ \A i \in Jumps :
             AddrOf(log[i]) \in {AddrOf(LastWrite), u32_add(AddrOf(LastWrite), LastWrite.len)}

\* C19 amended: after a successful load the jump was issued exactly once, as
\* the last transfer, with RW_INTERNAL and no data, and it is addressed to the
\* address field of the terminating chunk of length 0, the program entry.
C19_JumpEntry ==
    (IsFx3 /\ pc = "done" /\ ret = 0) =>
        /\ Cardinality(Jumps) = 1
        /\ \A i \in Jumps :
             /\ i = Len(log)
             /\ log[i].req = RW_INTERNAL /\ log[i].len = 0
             /\ image.term.present
             /\ AddrOf(log[i]) = image.term.value

\* C19 happens: a chunk was written at 0x100 and the jump went to 0x200
C19_Witness ==
    /\ Fx3Loaded
    /\ AddrOf(LastWrite) = U32(0, 256)
    /\ AddrOf(log[Len(log)]) = U32(0, 512)

\* a header of 4 bytes: 'C', 'Y', any byte, 0xB0
HeaderGood(h) == Len(h) = 4 /\ h[1] = 67 /\ h[2] = 89 /\ h[4] = 176

\* C20: FX3 header validation.  The load goes on to the chunks, and issues any
\* transfer at all, only for a header of 4 bytes that starts with "CY" and
\* whose byte 3 is 0xB0; with any other header the load fails with -3 and no
\* transfer was issued to the device.
C20_HeaderGate ==
    IsFx3 =>
        /\ (log # <<>> \/ pc \in {"fx3_version", "fx3_chunk", "fx3_write", "fx3_read",
                                  "fx3_csum", "fx3_jump"}) =>
              image.exists /\ HeaderGood(image.fhdr)
        /\ (pc = "done" /\ image.exists /\ ~HeaderGood(image.fhdr)) => ret = -3 /\ log = <<>>

\* C20 happens: an image of type 0xB1 with chunks to write was refused
C20_Witness ==
    /\ IsFx3 /\ pc = "done" /\ ret = -3 /\ log = <<>>
    /\ image.fhdr = <<67, 89, 0, 177>>
    /\ image.chunks # <<>>

(***************************************************************************)
(* Cypress IIC: where the blocks of a file lie.                            *)
(***************************************************************************)
\* the bytes block n takes in the file: its header and the payload present
BlockBytes(b) == 4 + b.have

RECURSIVE BlockStart(_, _)
BlockStart(bs, n) == IF n = 1 THEN 8 ELSE BlockStart(bs, n - 1) + BlockBytes(bs[n - 1])

FileSize(im) == BlockStart(im.blocks, Len(im.blocks) + 1) + im.trail

\* more than 5 bytes of the file remain where block n starts
BeforeTrailer(im, n) == FileSize(im) - BlockStart(im.blocks, n) > 5

\* block n fits the buffer and its payload is all there
BlockWhole(b) == b.len <= 4096 /\ b.have = b.len

\* C21: Cypress IIC parsing.  When parse_iic has returned, the calls of poke it
\* made are the first blocks of the file, one call each, in file order, with
\* the block's address, length and payload (the bytes after its 4-byte
\* header, the first block's header at offset 8); on success these are all
\* blocks that start with more than 5 bytes remaining, so nothing of the last
\* 5 bytes is poked as a block; a parse that stops at a block without a failed
\* poke stops at a block longer than 4096 bytes or with a cut payload, which
\* is not poked.
C21_IicBlocks ==
    (NonFx3 /\ ps.fn = "iic" /\ pc = "parsed") =>
        LET k == Len(pokes)
            bs == image.blocks
        IN  /\ k <= Len(bs)
            /\ \A n \in 1..k :
                 /\ pokes[n].addr = bs[n].addr
                 /\ pokes[n].len = bs[n].len
                 /\ pokes[n].src = BlockStart(bs, n) + 4
                 /\ BeforeTrailer(image, n) /\ BlockWhole(bs[n])
            /\ status = 0 => \A n \in DOMAIN bs : BeforeTrailer(image, n) => n <= k
            /\ (status < 0 /\ pk.rc >= 0) =>
                 /\ k < Len(bs)
                 /\ BeforeTrailer(image, k + 1)
                 /\ ~BlockWhole(bs[k + 1])

\* C21 happens: two blocks were poked and the 5 bytes after them were not
C21_Witness ==
    /\ NonFx3 /\ ps.fn = "iic" /\ pc = "parsed" /\ status = 0
    /\ Len(pokes) = 2 /\ Len(image.blocks) = 2 /\ image.trail = 5

\* a block of 4097 bytes, after a block that was poked, has failed the parse
C21_TooBigWitness ==
    /\ NonFx3 /\ ps.fn = "iic" /\ pc = "parsed" /\ status < 0 /\ pk.rc >= 0
    /\ Len(pokes) = 1 /\ image.blocks[2].len > 4096

\* the chunks of at most 4096 bytes of a file of `size` bytes, from `at` on
RECURSIVE FileChunks(_, _)
FileChunks(size, at) ==
    IF at >= size THEN <<>>
    ELSE <<[addr |-> at, len |-> Min(4096, size - at), src |-> at]>>
         \o FileChunks(size, at + Min(4096, size - at))

\* the first scan is in a parser or has left one
InFirstScan == phase = 1 /\ pc \in {"parse", "poke", "write", "poke_ret", "parsed"}

\* C22: binary images.  For the image types BIX and IMG the dispatch invokes
\* the binary parser; when it has returned success its calls of poke are the
\* consecutive chunks of at most 4096 bytes of the file, the first at address
\* 0 and each at the address where the one before it ends, each classified
\* from its address and length alone, so that together they are the file.
C22_Binary ==
    (NonFx3 /\ img_type \in {IMG_TYPE_BIX, IMG_TYPE_IMG}) =>
        /\ pc # "crashed"
        /\ InFirstScan => ps.fn = "bin"
        /\ (InFirstScan /\ pc = "parsed" /\ status = 0) =>
             /\ [k \in DOMAIN pokes |->
                    [addr |-> pokes[k].addr, len |-> pokes[k].len, src |-> pokes[k].src]]
                  = FileChunks(image.size, 0)
             /\ \A k \in DOMAIN pokes :
                  pokes[k].external = ~InWindow(fx_type, pokes[k].addr, pokes[k].len)

\* the binary parser on the images of type BIX
C22_BinaryBix == img_type = IMG_TYPE_BIX => C22_Binary

\* a BIX file of 4097 bytes was poked as a chunk of 4096 bytes and one of 1
C22_BixWitness ==
    /\ NonFx3 /\ img_type = IMG_TYPE_BIX /\ InFirstScan /\ pc = "parsed" /\ status = 0
    /\ image.size = 4097 /\ Len(pokes) = 2

\* the address a transfer is sent to, as a number
WireAddr(e) == e.wIndex * TwoTo16 + e.wValue

\* the first and the last byte of the range lie in one on-chip window
BytesOnChip(fx, addr, len) ==
    \E w \in Windows(fx) : addr >= w.lo /\ addr + len - 1 < w.hi

\* the range starts in an on-chip window and ends after it
Straddles(fx, addr, len) ==
    \E w \in Windows(fx) : addr >= w.lo /\ addr < w.hi /\ addr + len > w.hi

\* C23: on-chip opcode safety.  A vendor write of the poke sink carries
\* RW_INTERNAL when its segment was classified internal and RW_MEMORY when
\* external, wValue = addr mod 2^16, wIndex = addr div 2^16 and the segment's
\* length; a segment that straddles the end of an on-chip window is handed to
\* poke as external; and all bytes of every write with RW_INTERNAL lie in one
\* on-chip window of the chip.
C23_OpcodeSafety ==
    /\ [](NonFx3 =>
            /\ pc = "poke" /\ Straddles(fx_type, pk.addr, pk.len) => pk.external
            /\ \A i \in DOMAIN log :
                 (IsWrite(log[i]) /\ log[i].req = RW_INTERNAL /\ log[i].len > 0) =>
                     BytesOnChip(fx_type, WireAddr(log[i]), log[i].len))
    /\ [][(NonFx3 /\ pc = "write") =>
            /\ Len(log') = Len(log) + 1
            /\ IsWrite(log'[Len(log')])
            /\ log'[Len(log')].req = (IF pk.external THEN RW_MEMORY ELSE RW_INTERNAL)
            /\ log'[Len(log')].wValue = pk.addr % TwoTo16
            /\ log'[Len(log')].wIndex = pk.addr \div TwoTo16
            /\ log'[Len(log')].len = pk.len
            /\ log'[Len(log')].data = pk.data]_vars

\* C23 happens: a segment merged of two records that straddles 0x4000 was
\* written with RW_MEMORY
C23_Witness ==
    /\ log # <<>>
    /\ IsWrite(log[Len(log)]) /\ log[Len(log)].req = RW_MEMORY
    /\ Straddles(fx_type, WireAddr(log[Len(log)]), log[Len(log)].len)
    /\ \E i, j \in DOMAIN log[Len(log)].data :
         log[Len(log)].data[i][1] # log[Len(log)].data[j][1]

\* a transfer that moved some, but not all, of its bytes
IsShort(e) == e.status >= 0 /\ e.status < e.len

\* C24: short writes count as success.  When the control transfer of a vendor
\* write of the poke sink returns a byte count that is not negative and is
\* less than the length asked for, ram_poke returns 0 after that one attempt,
\* without a retry; the totals keep the full length of the segment; and the
\* parser goes on: to its next record, or it returns success.
C24_ShortWrite ==
    /\ [](NonFx3 =>
            /\ (pc = "poke_ret" /\ pk.tries # <<>> /\ pk.tries[Len(pk.tries)] >= 0) =>
                  pk.rc = 0 /\ Len(pk.tries) = 1 /\ pk.retry = 0
            /\ BetweenPokes => ctx.total = SumLen(Tried) /\ ctx.count = Len(Tried))
    /\ [][(NonFx3 /\ pc = "poke_ret" /\ pk.tries # <<>> /\ pk.tries[1] >= 0
                  /\ pk.tries[1] < pk.len) =>
            /\ pc' \in {"parse", "parsed"}
            /\ pc' = "parsed" => status' = 0
            /\ err' = err /\ ctx' = ctx]_vars

\* C24 happens: the first write of an upload moved 1 of its 2 bytes, a second
\* segment was written, the upload has succeeded and counts all bytes
C24_Witness ==
    /\ NonFx3 /\ pc = "done" /\ ret = 0
    /\ Len(Written) = 2
    /\ IsShort(Written[1]) /\ Written[1].len = 2
    /\ ctx.count = 2 /\ ctx.total = SumLen(Written)

\* the line of the first end-of-file record, Len + 1 when the file has none
FirstEof(ls) ==
    IF \E n \in DOMAIN ls : IsEofRecord(ls[n])
    THEN CHOOSE n \in DOMAIN ls : IsEofRecord(ls[n]) /\ \A m \in 1..(n - 1) : ~IsEofRecord(ls[m])
    ELSE Len(ls) + 1

\* the lines before line e are comments and data records that hold what they
\* declare
WellFormedBefore(ls, e) ==
    \A n \in 1..(e - 1) : IsComment(ls[n]) \/ (ls[n].c0 = ":" /\ ls[n].type = 0
                                                 /\ ls[n].npairs >= ls[n].len + 1)

\* the bytes the records before line e declare
RECURSIVE BytesBefore(_, _)
BytesBefore(ls, e) ==
    IF e <= 1 THEN 0
    ELSE BytesBefore(ls, e - 1) + (IF ls[e - 1].c0 = ":" THEN ls[e - 1].len ELSE 0)

\* C25: Intel HEX end handling.  When parse_ihex has come to the end of a file
\* without an end-of-file record, or to the first end-of-file record, and no
\* poke has failed, it returns success; every byte of the records before that
\* point was poked, once; the pending segment was the last one poked; and no
\* line after an end-of-file record was parsed or poked.
C25_EndHandling ==
    (NonFx3 /\ img_type = IMG_TYPE_HEX /\ ps.fn = "ihex" /\ pc = "parsed"
            /\ WellFormedBefore(image.lines, FirstEof(image.lines)) /\ pk.rc >= 0) =>
        /\ status = 0
        /\ ps.pos = FirstEof(image.lines)
        /\ SumLen(PassPokes) = BytesBefore(image.lines, FirstEof(image.lines))
        /\ Cardinality(PokedBytes(PassPokes)) = SumLen(PassPokes)
        /\ \A x \in PokedBytes(PassPokes) : x[2][1] < FirstEof(image.lines)
        /\ ps.data_len # 0 =>
             /\ PassPokes # <<>>
             /\ PassPokes[Len(PassPokes)].data = ps.data
             /\ PassPokes[Len(PassPokes)].addr = ps.data_addr

\* C25 happens: two records were poked as one segment at the end-of-file
\* record, and the two lines after it were left alone
C25_Witness ==
    /\ NonFx3 /\ img_type = IMG_TYPE_HEX /\ ps.fn = "ihex" /\ pc = "parsed" /\ status = 0
    /\ FirstEof(image.lines) = 3 /\ Len(image.lines) = 5
    /\ Len(PassPokes) = 1 /\ PassPokes[1].len = 7

\* a file without an end-of-file record was poked and the parse has succeeded
C25_NoEofWitness ==
    /\ NonFx3 /\ img_type = IMG_TYPE_HEX /\ ps.fn = "ihex" /\ pc = "parsed" /\ status = 0
    /\ FirstEof(image.lines) = Len(image.lines) + 1
    /\ Len(PassPokes) = 2

\* the calls of poke that parse_ihex made
IsIhexPoke(k) == k.fn = "ihex"

\* C26: the Intel HEX buffer invariant.  In parse_ihex the pending length is
\* always between 0 and 1023 and is the number of bytes stored, so every byte
\* is stored at an index below 1023; and every segment handed to poke holds
\* between 1 and 1023 bytes.
C26_BufferInvariant ==
    /\ ps.fn = "ihex" =>
          /\ ps.data_len >= 0 /\ ps.data_len <= IHEX_DATA_SIZE
          /\ Len(ps.data) = ps.data_len
    /\ (ps.fn = "ihex" /\ pc \in {"poke", "write", "poke_ret"}) =>
          /\ pk.len >= 1 /\ pk.len <= IHEX_DATA_SIZE
          /\ Len(pk.data) = pk.len
    /\ \A k \in DOMAIN pokes :
          IsIhexPoke(pokes[k]) => pokes[k].len >= 1 /\ pokes[k].len <= IHEX_DATA_SIZE

\* C26 happens: the buffer holds 1023 bytes, is poked because the next record
\* of 4 bytes does not fit, and is filled anew with that record
C26_Witness ==
    /\ pc = "parse" /\ ps.fn = "ihex" /\ ps.data_len = 4
    /\ pokes # <<>>
    /\ pokes[Len(pokes)].len = IHEX_DATA_SIZE
    /\ ps.data_addr = pokes[Len(pokes)].addr + IHEX_DATA_SIZE

\* the first byte of an IIC image for the chip: 0xC2, 0xB2, 0xB6
IicCode(fx) ==
    IF fx \in {FX_TYPE_FX2, FX_TYPE_FX2LP} THEN 194
    ELSE IF fx = FX_TYPE_AN21 THEN 178
    ELSE 182

\* all 8 header bytes are there and the first is the chip's
HeaderMatches(fx, h) == h.n = 8 /\ h.b0 = IicCode(fx)

\* an upload of an IIC file that exists, to a chip other than an FX3
IicUpload == NonFx3 /\ img_type = IMG_TYPE_IIC /\ image.exists

\* C27: the IIC executable-header gate.  An upload of an IIC image whose 8
\* header bytes cannot be read, or whose first byte is not the chip's (0xC2
\* for FX2 and FX2LP, 0xB2 for AN21, 0xB6 for FX), fails with -1 in its first
\* step, without a halt, a write or a run and without a poke; with a matching
\* header it goes on to the halt or to the first scan.
C27_IicHeaderGate ==
    /\ []((IicUpload /\ ~HeaderMatches(fx_type, image.header)) =>
             /\ log = <<>> /\ pokes = <<>>
             /\ pc \in {"start", "done"}
             /\ pc = "done" => ret = -1)
    /\ [][(IicUpload /\ pc = "start") =>
             IF HeaderMatches(fx_type, image.header)
             THEN pc' \in {"halt", "scan"}
             ELSE pc' = "done" /\ ret' = -1]_vars

\* C27 happens: a complete image for an FX2 (first byte 0xC2) was refused for
\* an AN21
C27_Witness ==
    /\ IicUpload /\ pc = "done" /\ ret = -1 /\ log = <<>>
    /\ fx_type = FX_TYPE_AN21
    /\ image.header.n = 8 /\ image.header.b0 = 194
    /\ image.blocks # <<>>

\* the read of the bootloader version: 4 bytes at 0xFFFF0020
IsVersionRead(e) ==
    IsRead(e) /\ e.req = RW_INTERNAL /\ AddrOf(e) = U32(65535, 32) /\ e.len = 4

\* C28: verbosity changes the FX3 protocol.  With verbose >= 1 the first
\* transfer of the loader is the read of the bootloader version, and when it
\* fails it stays the only transfer and the load fails with -8; with
\* verbose <= 0 the read is not issued: the first transfer is a firmware write
\* or the jump.
C28_VerbosityProtocol ==
    (IsFx3 /\ log # <<>>) =>
        IF verbose >= 1
        THEN /\ IsVersionRead(log[1])
             /\ log[1].status < 0 => Len(log) = 1 /\ pc = "done" /\ ret = -8
        ELSE IsWrite(log[1]) \/ IsJump(log[1])

\* the protocol of the loader with verbose at 0 or above
C28_VerbosityNotNegative == verbose >= 0 => C28_VerbosityProtocol

\* with verbose at 1 the version was read, a chunk written and the jump made
C28_NotNegativeWitness ==
    /\ IsFx3 /\ verbose = 1 /\ pc = "done" /\ ret = 0
    /\ Len(log) = 4 /\ IsVersionRead(log[1])

\* fx3_load_ram is at a chunk whose words can all be read
AtWholeChunk ==
    /\ IsFx3 /\ pc = "fx3_chunk"
    /\ fx3.ci <= Len(image.chunks)
    /\ image.chunks[fx3.ci].have = image.chunks[fx3.ci].dLength

\* the bytes still to be written are 4 for every word of the chunk
ChunkBytesStep ==
    AtWholeChunk =>
        /\ pc' = "fx3_write"
        /\ fx3'.dLength % 4 = 0
        /\ fx3'.dLength \div 4 = image.chunks[fx3.ci].dLength

\* a sub-write that was read back takes its length off the bytes still to be
\* written, and the chunk is left when none are
SubWriteStep ==
    (IsFx3 /\ pc = "fx3_read" /\ pc' # "done") =>
        /\ fx3'.dLength = fx3.dLength - log[Len(log)].len
        /\ pc' = (IF fx3'.dLength = 0 THEN "fx3_chunk" ELSE "fx3_write")

\* C29: FX3 chunk length arithmetic.  For every chunk of word_count > 0 words
\* that is read, the sub-writes are to write 4 * word_count bytes, whatever
\* word_count is, 2^30 and more included; every sub-write takes its length
\* off that number and the chunk is done when it is 0.
C29_ChunkBytes == [][ChunkBytesStep /\ SubWriteStep]_vars

\* C29 for the chunks of fewer than 2^30 words
C29_ChunkBytesBelow ==
    [][(image.chunks # <<>> /\ \A i \in DOMAIN image.chunks : image.chunks[i].dLength < 1073741824)
          => (ChunkBytesStep /\ SubWriteStep)]_vars

\* the 4 bytes of a chunk of 1 word were written and read back
C29_BelowWitness ==
    /\ IsFx3 /\ pc = "fx3_chunk" /\ fx3.ci = 2
    /\ image.chunks[1].dLength = 1
    /\ SumLen(SelectSeq(log, IsWrite)) = 4

\* C30: termination.  For every image file, when every control transfer
\* returns, each upload (single-stage, two-stage or FX3) reaches Done or Failed,
\* the end of ezusb_load_ram with its status, after finitely many steps.
C30_Termination == <>(pc = "done")

\* C30 with the end of the process in the call through parse[IMG_TYPE_IMG]
\* counted: every loop of the parsers, of the sub-writes and of the retries ends
C30_TerminationOrCrash == <>(pc \in {"done", "crashed"})
====
